---- MODULE Spec2Model ----
(***************************************************************************)
(* Asset ingestion and deduplication pipeline of the immich server:        *)
(* AssetController.uploadFile and AssetController.deleteAsset              *)
(* (server/apps/immich/src/api-v1/asset/asset.controller.ts), run by       *)
(* concurrent requests against the asset registry, the asset-uploaded work *)
(* queue, the background delete queue and the upload directory.            *)
(*                                                                         *)
(* Every await of a handler is an interleaving point: one action per       *)
(* awaited call, together with the synchronous code that follows it up to  *)
(* the next await.                                                         *)
(***************************************************************************)
EXTENDS Naturals, Sequences, FiniteSets

\* Number of upload requests and of delete requests in a run.
MaxUploads == 2
MaxDeletes == 2

Uploads == 1..MaxUploads
Deletes == 1..MaxDeletes

\* Authenticated users and file contents (the spec's scenario: u1, u2, "ABC").
Owners == {"u1", "u2"}
Contents == {"ABC", "XYZ"}

\* Asset ids are generated by the store, one per inserted row.
AssetIds == 1..MaxUploads
NoAsset == 0
NoUser == "nobody"
NoFile == "nofile"
NoChecksum == <<>>

\* HTTP statuses of a response; Pending: the handler has not returned.
Pending == 0
StatusOk == 200
StatusCreated == 201
StatusBadRequest == 400
StatusInternalError == 500

\* What the try block of uploadFile threw.
NoError == "none"
UniqueViolation == "UQ_userid_checksum"
StoreError == "QueryFailedError"
NotCreated == "Asset not created"
QueueError == "queue add failed"

assetUploadedProcessorName == "asset-uploaded"

VARIABLES
  pc,          \* upload request -> position in uploadFile
  authUser,    \* upload request -> authenticated user
  file,        \* upload request -> content of the uploaded file
  checksum,    \* upload request -> const checksum
  savedAsset,  \* upload request -> id of savedAsset, NoAsset while there is none
  err,         \* upload request -> what the try block threw
  res,         \* upload request -> [status, id] of the response
  cleanups,    \* upload request -> calls of deleteFileOnDisk with file.path
  assets,      \* asset registry: the rows of the asset table
  disk,        \* paths that exist in the upload directory
  jobs,        \* the asset-uploaded queue: sequence of jobs
  deleteQueue, \* paths handed to deleteFileOnDisk and not yet removed
  dpc,         \* delete request -> position in deleteAsset
  dUser,       \* delete request -> authenticated user
  dId,         \* delete request -> the id of assetIds.ids
  dList,       \* delete request -> deleteAssetList (ids of the assets found)
  dResult      \* delete request -> status of the id in result

uploadVars == <<pc, authUser, file, checksum, savedAsset, err, res, cleanups>>
deleteVars == <<dpc, dUser, dId, dList, dResult>>
vars == <<pc, authUser, file, checksum, savedAsset, err, res, cleanups,
          assets, disk, jobs, deleteQueue, dpc, dUser, dId, dList, dResult>>

----------------------------------------------------------------------------
(* Collaborators of the controller *)

\* multer stores each uploaded file under a path of its own.
FilePath(r) == <<"upload", r>>

\* Content Hasher: a deterministic digest of the bytes.
Hash(b) == <<"sha1", b>>

\* Rows of the registry that are not deleted.
LiveAssets == {a \in assets : ~a.deleted}

\* The rows an insert of (userId, checksum) conflicts with under the
\* constraint UQ_userid_checksum.
ConflictingAnyOwner(userId, sum) ==
  {a \in LiveAssets : a.checksum = sum}

Conflicting(userId, sum) ==
  {a \in LiveAssets : a.userId = userId /\ a.checksum = sum}

\* The id the store gives the next inserted row.
NewAssetId == Cardinality(assets) + 1

NewAsset(userId, path, sum) ==
  [id |-> NewAssetId, userId |-> userId, checksum |-> sum,
   originalPath |-> path, deleted |-> FALSE]

\* assetService.getAssetByChecksum(userId, checksum)
GetAssetByChecksum(userId, sum) ==
  {a \in LiveAssets : a.userId = userId /\ a.checksum = sum}

\* assetService.getAssetById(authUser, id)
GetAssetById(userId, id) ==
  {a \in LiveAssets : a.id = id /\ a.userId = userId}

\* The jobId option of the submitted job: { jobId: savedAsset.id }
JobId(asset) == asset.id

\* Queue.add(name, data, {jobId}): a job id that is already in the queue, in
\* whatever state, is not added again.
QueueAdd(q, name, asset, jobId) ==
  IF \E i \in 1..Len(q) : q[i].jobId = jobId
    THEN q
    ELSE Append(q, [jobId |-> jobId, name |-> name, asset |-> asset.id,
                    state |-> "waiting"])

\* The jobs of the queue that carry asset id.
JobsOf(id) == {i \in 1..Len(jobs) : jobs[i].asset = id}

\* backgroundTaskService.deleteFileOnDisk(list): the paths go to the delete
\* queue, and are removed from the disk later.
DeleteFileOnDisk(paths) == deleteQueue' = deleteQueue \cup paths

AssetById(id) == CHOOSE a \in assets : a.id = id

----------------------------------------------------------------------------
Init ==
  /\ pc = [r \in Uploads |-> "idle"]
  /\ authUser = [r \in Uploads |-> NoUser]
  /\ file = [r \in Uploads |-> NoFile]
  /\ checksum = [r \in Uploads |-> NoChecksum]
  /\ savedAsset = [r \in Uploads |-> NoAsset]
  /\ err = [r \in Uploads |-> NoError]
  /\ res = [r \in Uploads |-> [status |-> Pending, id |-> NoAsset]]
  /\ cleanups = [r \in Uploads |-> 0]
  /\ assets = {}
  /\ disk = {}
  /\ jobs = <<>>
  /\ deleteQueue = {}
  /\ dpc = [d \in Deletes |-> "idle"]
  /\ dUser = [d \in Deletes |-> NoUser]
  /\ dId = [d \in Deletes |-> NoAsset]
  /\ dList = [d \in Deletes |-> {}]
  /\ dResult = [d \in Deletes |-> "none"]

Respond(r, status, id) ==
  /\ res' = [res EXCEPT ![r] = [status |-> status, id |-> id]]
  /\ pc' = [pc EXCEPT ![r] = "done"]

----------------------------------------------------------------------------
(* uploadFile *)

\* The FileInterceptor has stored the file; uploadFile is entered.
UploadedFile(r, o, b) ==
  /\ pc[r] = "idle"
  /\ \A q \in Uploads : q < r => pc[q] # "idle"
  /\ authUser' = [authUser EXCEPT ![r] = o]
  /\ file' = [file EXCEPT ![r] = b]
  /\ disk' = disk \cup {FilePath(r)}
  /\ pc' = [pc EXCEPT ![r] = "checksum"]
  /\ UNCHANGED <<checksum, savedAsset, err, res, cleanups, assets, jobs,
                 deleteQueue, deleteVars>>

\* A checksum taken before the file content is read.
CalculateChecksumOfNoFile(r) ==
  /\ pc[r] = "checksum"
  /\ checksum' = [checksum EXCEPT ![r] = Hash(NoFile)]
  /\ pc' = [pc EXCEPT ![r] = "create"]
  /\ UNCHANGED <<authUser, file, savedAsset, err, res, cleanups, assets, disk,
                 jobs, deleteQueue, deleteVars>>

\* const checksum = await this.assetService.calculateChecksum(file.path)
CalculateChecksum(r) ==
  /\ pc[r] = "checksum"
  /\ checksum' = [checksum EXCEPT ![r] = Hash(file[r])]
  /\ pc' = [pc EXCEPT ![r] = "create"]
  /\ UNCHANGED <<authUser, file, savedAsset, err, res, cleanups, assets, disk,
                 jobs, deleteQueue, deleteVars>>

\* calculateChecksum throws: the call is outside the try block, the exception
\* leaves uploadFile.
CalculateChecksumFails(r) ==
  /\ pc[r] = "checksum"
  /\ Respond(r, StatusInternalError, NoAsset)
  /\ UNCHANGED <<authUser, file, checksum, savedAsset, err, cleanups, assets,
                 disk, jobs, deleteQueue, deleteVars>>

\* createUserAsset inserts the row and returns it.
CreateUserAsset(r) ==
  /\ pc[r] = "create"
  /\ Conflicting(authUser[r], checksum[r]) = {}
  /\ assets' = assets \cup {NewAsset(authUser[r], FilePath(r), checksum[r])}
  /\ savedAsset' = [savedAsset EXCEPT ![r] = NewAssetId]
  /\ pc' = [pc EXCEPT ![r] = "enqueue"]
  /\ UNCHANGED <<authUser, file, checksum, err, res, cleanups, disk, jobs,
                 deleteQueue, deleteVars>>

\* createUserAsset throws: the insert violates UQ_userid_checksum, or the
\* store fails otherwise.
CreateUserAssetThrows(r, e) ==
  /\ pc[r] = "create"
  /\ e = UniqueViolation => Conflicting(authUser[r], checksum[r]) # {}
  /\ err' = [err EXCEPT ![r] = e]
  /\ pc' = [pc EXCEPT ![r] = "catch"]
  /\ UNCHANGED <<authUser, file, checksum, savedAsset, res, cleanups, assets,
                 disk, jobs, deleteQueue, deleteVars>>

\* createUserAsset returns no asset: the file is handed to deleteFileOnDisk
\* and 'Asset not created' is thrown inside the try block.
CreateUserAssetReturnsNothing(r) ==
  /\ pc[r] = "create"
  /\ DeleteFileOnDisk({FilePath(r)})
  /\ cleanups' = [cleanups EXCEPT ![r] = @ + 1]
  /\ err' = [err EXCEPT ![r] = NotCreated]
  /\ pc' = [pc EXCEPT ![r] = "catch"]
  /\ UNCHANGED <<authUser, file, checksum, savedAsset, res, assets, disk, jobs,
                 deleteVars>>

\* await this.assetUploadedQueue.add(...); return the response with
\* savedAsset.id (a POST answers 201).
EnqueueDropped(r) ==
  /\ pc[r] = "enqueue"
  /\ UNCHANGED jobs
  /\ Respond(r, StatusCreated, savedAsset[r])
  /\ UNCHANGED <<authUser, file, checksum, savedAsset, err, cleanups, assets,
                 disk, deleteQueue, deleteVars>>

\* Without the jobId option the queue numbers its jobs itself.
EnqueueDefaultJobId(r) ==
  /\ pc[r] = "enqueue"
  /\ jobs' = QueueAdd(jobs, assetUploadedProcessorName,
                      AssetById(savedAsset[r]), Len(jobs) + 1)
  /\ Respond(r, StatusCreated, savedAsset[r])
  /\ UNCHANGED <<authUser, file, checksum, savedAsset, err, cleanups, assets,
                 disk, deleteQueue, deleteVars>>

\* An enqueue that awaits the completion of the job before it answers.
EnqueueAwaitsJob(r) ==
  /\ pc[r] = "enqueue"
  /\ IF JobsOf(savedAsset[r]) = {}
       THEN /\ jobs' = QueueAdd(jobs, assetUploadedProcessorName,
                                AssetById(savedAsset[r]),
                                JobId(AssetById(savedAsset[r])))
            /\ UNCHANGED <<pc, res>>
       ELSE /\ \A i \in JobsOf(savedAsset[r]) : jobs[i].state = "completed"
            /\ UNCHANGED jobs
            /\ Respond(r, StatusCreated, savedAsset[r])
  /\ UNCHANGED <<authUser, file, checksum, savedAsset, err, cleanups, assets,
                 disk, deleteQueue, deleteVars>>

Enqueue(r) ==
  /\ pc[r] = "enqueue"
  /\ jobs' = QueueAdd(jobs, assetUploadedProcessorName,
                      AssetById(savedAsset[r]), JobId(AssetById(savedAsset[r])))
  /\ Respond(r, StatusCreated, savedAsset[r])
  /\ UNCHANGED <<authUser, file, checksum, savedAsset, err, cleanups, assets,
                 disk, deleteQueue, deleteVars>>

\* assetUploadedQueue.add throws.
EnqueueFails(r) ==
  /\ pc[r] = "enqueue"
  /\ err' = [err EXCEPT ![r] = QueueError]
  /\ pc' = [pc EXCEPT ![r] = "catch"]
  /\ UNCHANGED <<authUser, file, checksum, savedAsset, res, cleanups, assets,
                 disk, jobs, deleteQueue, deleteVars>>

\* catch (err): the file is handed to deleteFileOnDisk; on the uniqueness
\* violation the existing asset is looked up next, any other error is
\* answered with a BadRequestException.
CatchNoCleanup(r) ==
  /\ pc[r] = "catch"
  /\ UNCHANGED <<deleteQueue, cleanups>>
  /\ IF err[r] = UniqueViolation
       THEN pc' = [pc EXCEPT ![r] = "readback"] /\ UNCHANGED res
       ELSE Respond(r, StatusBadRequest, NoAsset)
  /\ UNCHANGED <<authUser, file, checksum, savedAsset, err, assets, disk, jobs,
                 deleteVars>>

\* A catch that treats every error as a conflict.
CatchAnyError(r) ==
  /\ pc[r] = "catch"
  /\ DeleteFileOnDisk({FilePath(r)})
  /\ cleanups' = [cleanups EXCEPT ![r] = @ + 1]
  /\ pc' = [pc EXCEPT ![r] = "readback"] /\ UNCHANGED res
  /\ UNCHANGED <<authUser, file, checksum, savedAsset, err, assets, disk, jobs,
                 deleteVars>>

\* A catch that answers other errors with success.
CatchSwallowsError(r) ==
  /\ pc[r] = "catch"
  /\ DeleteFileOnDisk({FilePath(r)})
  /\ cleanups' = [cleanups EXCEPT ![r] = @ + 1]
  /\ IF err[r] = UniqueViolation
       THEN pc' = [pc EXCEPT ![r] = "readback"] /\ UNCHANGED res
       ELSE Respond(r, StatusOk, NoAsset)
  /\ UNCHANGED <<authUser, file, checksum, savedAsset, err, assets, disk, jobs,
                 deleteVars>>

Catch(r) ==
  /\ pc[r] = "catch"
  /\ DeleteFileOnDisk({FilePath(r)})
  /\ cleanups' = [cleanups EXCEPT ![r] = @ + 1]
  /\ IF err[r] = UniqueViolation
       THEN pc' = [pc EXCEPT ![r] = "readback"] /\ UNCHANGED res
       ELSE Respond(r, StatusBadRequest, NoAsset)
  /\ UNCHANGED <<authUser, file, checksum, savedAsset, err, assets, disk, jobs,
                 deleteVars>>

\* existedAsset = await getAssetByChecksum(authUser.id, checksum);
\* res.status(200); return the response with existedAsset.id.  With no such
\* asset, existedAsset.id throws a TypeError out of the handler.
ReadBackWith(r, status) ==
  /\ pc[r] = "readback"
  /\ IF GetAssetByChecksum(authUser[r], checksum[r]) = {}
       THEN Respond(r, StatusInternalError, NoAsset)
       ELSE \E a \in GetAssetByChecksum(authUser[r], checksum[r]) :
              Respond(r, status, a.id)
  /\ UNCHANGED <<authUser, file, checksum, savedAsset, err, cleanups, assets,
                 disk, jobs, deleteQueue, deleteVars>>

ReadBackKeepsStatus(r) == ReadBackWith(r, StatusCreated)

\* A read-back that submits a job for the asset it found.
ReadBackRequeues(r) ==
  /\ pc[r] = "readback"
  /\ IF GetAssetByChecksum(authUser[r], checksum[r]) = {}
       THEN Respond(r, StatusInternalError, NoAsset) /\ UNCHANGED jobs
       ELSE \E a \in GetAssetByChecksum(authUser[r], checksum[r]) :
              /\ jobs' = QueueAdd(jobs, assetUploadedProcessorName, a, JobId(a))
              /\ Respond(r, StatusOk, a.id)
  /\ UNCHANGED <<authUser, file, checksum, savedAsset, err, cleanups, assets,
                 disk, deleteQueue, deleteVars>>

ReadBack(r) == ReadBackWith(r, StatusOk)

\* The process stops between createUserAsset and assetUploadedQueue.add: the
\* row is in the registry, the request gets no answer and takes no more steps.
Crash(r) ==
  /\ pc[r] = "enqueue"
  /\ pc' = [pc EXCEPT ![r] = "crashed"]
  /\ UNCHANGED <<authUser, file, checksum, savedAsset, err, res, cleanups,
                 assets, disk, jobs, deleteQueue, deleteVars>>

----------------------------------------------------------------------------
(* deleteAsset *)

\* deleteAsset is entered with assetIds.ids = [id].
DeleteRequested(d, o, id) ==
  /\ dpc[d] = "idle"
  /\ \A q \in Deletes : q < d => dpc[q] # "idle"
  /\ dUser' = [dUser EXCEPT ![d] = o]
  /\ dId' = [dId EXCEPT ![d] = id]
  /\ dpc' = [dpc EXCEPT ![d] = "lookup"]
  /\ UNCHANGED <<dList, dResult, uploadVars, assets, disk, jobs, deleteQueue>>

\* for (const id of assetIds.ids): getAssetById, push what was found.
DeleteLookup(d) ==
  /\ dpc[d] = "lookup"
  /\ dList' = [dList EXCEPT ![d] =
                 {a.id : a \in GetAssetById(dUser[d], dId[d])}]
  /\ dpc' = [dpc EXCEPT ![d] = "delete"]
  /\ UNCHANGED <<dUser, dId, dResult, uploadVars, assets, disk, jobs,
                 deleteQueue>>

\* The per-id status of assetService.deleteAssetById.
DeleteStatusAnyOwner(userId, id) ==
  IF ~\E a \in LiveAssets : a.id = id THEN "NotFound" ELSE "Success"

DeleteStatus(userId, id) ==
  IF ~\E a \in LiveAssets : a.id = id THEN "NotFound"
  ELSE IF AssetById(id).userId # userId THEN "Forbidden"
  ELSE "Success"

\* const result = await this.assetService.deleteAssetById(authUser, assetIds)
DeleteAssetById(d) ==
  /\ dpc[d] = "delete"
  /\ dResult' = [dResult EXCEPT ![d] = DeleteStatus(dUser[d], dId[d])]
  /\ assets' = IF DeleteStatus(dUser[d], dId[d]) = "Success"
                 THEN {IF a.id = dId[d] THEN [a EXCEPT !.deleted = TRUE] ELSE a
                        : a \in assets}
                 ELSE assets
  /\ dpc' = [dpc EXCEPT ![d] = "files"]
  /\ UNCHANGED <<dUser, dId, dList, uploadVars, disk, jobs, deleteQueue>>

\* result.forEach(... deleteAssetList.filter(...)) discards what filter
\* returns; deleteFileOnDisk(deleteAssetList); return result.
DeleteFiles(d) ==
  /\ dpc[d] = "files"
  /\ DeleteFileOnDisk({AssetById(id).originalPath : id \in dList[d]})
  /\ dpc' = [dpc EXCEPT ![d] = "done"]
  /\ UNCHANGED <<dUser, dId, dList, dResult, uploadVars, assets, disk, jobs>>

----------------------------------------------------------------------------
(* Background processors *)

\* The delete-file-on-disk processor removes one queued path.
Reaper ==
  \E p \in deleteQueue :
    /\ disk' = disk \ {p}
    /\ deleteQueue' = deleteQueue \ {p}
    /\ UNCHANGED <<uploadVars, deleteVars, assets, jobs>>

\* A worker completes a waiting job of the asset-uploaded queue.
Worker ==
  \E i \in 1..Len(jobs) :
    /\ jobs[i].state = "waiting"
    /\ jobs' = [jobs EXCEPT ![i].state = "completed"]
    /\ UNCHANGED <<uploadVars, deleteVars, assets, disk, deleteQueue>>

----------------------------------------------------------------------------
\* The steps of the upload requests and of the background processors.
Next ==
  \/ \E r \in Uploads, o \in Owners, b \in Contents : UploadedFile(r, o, b)
  \/ \E r \in Uploads : CalculateChecksum(r)
  \/ \E r \in Uploads : CalculateChecksumFails(r)
  \/ \E r \in Uploads : CreateUserAsset(r)
  \/ \E r \in Uploads, e \in {UniqueViolation, StoreError} :
       CreateUserAssetThrows(r, e)
  \/ \E r \in Uploads : CreateUserAssetReturnsNothing(r)
  \/ \E r \in Uploads : Enqueue(r)
  \/ \E r \in Uploads : EnqueueFails(r)
  \/ \E r \in Uploads : Catch(r)
  \/ \E r \in Uploads : ReadBack(r)
  \/ Reaper
  \/ Worker

\* The steps of the delete requests.
DeleteNext ==
  \/ \E d \in Deletes, o \in Owners, id \in AssetIds : DeleteRequested(d, o, id)
  \/ \E d \in Deletes : DeleteLookup(d)
  \/ \E d \in Deletes : DeleteAssetById(d)
  \/ \E d \in Deletes : DeleteFiles(d)

NextWithDelete == Next \/ DeleteNext

\* Concurrent uploads with the background processors.
Spec == Init /\ [][Next]_vars

\* Concurrent uploads and deletes with the background processors.
SpecDelete == Init /\ [][NextWithDelete]_vars

NextWithCrash == Next \/ \E r \in Uploads : Crash(r)

\* Concurrent uploads, any of which may stop before its enqueue.
SpecCrash == Init /\ [][NextWithCrash]_vars

----------------------------------------------------------------------------
(* Properties of uploadFile *)

Done(r) == pc[r] = "done"
Succeeded(r) == Done(r) /\ res[r].status \in {StatusOk, StatusCreated}
Rejected(r) == Done(r) /\ res[r].status \notin {StatusOk, StatusCreated}
\* The insert of upload r created a row of the registry.
Created(r) == \E a \in assets : a.originalPath = FilePath(r)
SameOwnerAndContent(r, s) ==
  /\ pc[r] # "idle" /\ pc[s] # "idle"
  /\ authUser[r] = authUser[s] /\ file[r] = file[s]
AssetsOf(userId, b) ==
  {a \in LiveAssets : a.userId = userId /\ a.checksum = Hash(b)}
\* Upload r takes a step.
Steps(r) == pc'[r] # pc[r]
\* Upload r returns its response in this step.
Responds(r) == ~Done(r) /\ Done(r)'

\* C1, as stated: when an upload answers with success after another upload
\* of the same owner and content has answered with success, the registry
\* holds exactly one asset of that owner and digest and the later answer is
\* a duplicate (200) carrying the asset id of the earlier answer.
C1_SecondResponseIsDuplicate ==
  [][\A r, s \in Uploads :
       (r # s /\ SameOwnerAndContent(r, s) /\ Succeeded(s)
          /\ Responds(r) /\ Succeeded(r)')
       => /\ Cardinality(AssetsOf(authUser[r], file[r]))' = 1
          /\ res'[r].status = StatusOk
          /\ res'[r].id = res[s].id]_vars

\* C1, amended: two uploads of the same owner and content that both answered
\* with success carry the id of the one asset the registry holds for that
\* owner and digest, and at most one of them is answered as new; an upload
\* whose insert is attempted after the other has answered with success does
\* not create an asset.  The duplicate may be the first to answer.
C1_DedupOneAssetSameId ==
  /\ [](\A r, s \in Uploads :
          (r # s /\ SameOwnerAndContent(r, s) /\ Succeeded(r) /\ Succeeded(s))
          => /\ AssetsOf(authUser[r], file[r]) = {AssetById(res[r].id)}
             /\ res[r].id = res[s].id
             /\ ~(res[r].status = StatusCreated /\ res[s].status = StatusCreated))
  /\ [][\A r, s \in Uploads :
          (r # s /\ SameOwnerAndContent(r, s) /\ Succeeded(s)
             /\ pc[r] = "create" /\ Steps(r))
          => (pc'[r] = "catch" /\ assets' = assets)]_vars

\* Two uploads of the same owner and content have both answered with
\* success: one as new, the other as a duplicate with the same asset id.
C1_Witness ==
  \E r, s \in Uploads :
    /\ r # s /\ SameOwnerAndContent(r, s)
    /\ Succeeded(r) /\ res[r].status = StatusOk
    /\ res[s].status = StatusCreated /\ res[s].id = res[r].id

\* C2: when uploadFile has returned, the path of the temporary upload does
\* not exist on disk (or is in the delete queue, its removal pending), unless
\* it is the storage path of a registered asset.
C2_NoOrphanedFiles ==
  \A r \in Uploads :
    Done(r) =>
      \/ FilePath(r) \notin disk
      \/ FilePath(r) \in deleteQueue
      \/ \E a \in LiveAssets : a.originalPath = FilePath(r)

\* C3: once createUserAsset has succeeded and the file path is the asset's
\* path, uploadFile never hands that path to deleteFileOnDisk.
C3_PromotedNeverDiscarded ==
  \A r \in Uploads : Created(r) => cleanups[r] = 0

\* C4: when the asset was created and the submission of its job fails, the
\* upload answers with the new asset's id, the asset stays registered and its
\* file stays in place.
C4_EnqueueFailureKeepsAsset ==
  \A r \in Uploads :
    (Done(r) /\ err[r] = QueueError) =>
      /\ res[r] = [status |-> StatusCreated, id |-> savedAsset[r]]
      /\ \E a \in LiveAssets : a.id = savedAsset[r]
      /\ FilePath(r) \in disk /\ FilePath(r) \notin deleteQueue

\* C5: when uploadFile ends with an error response, the registry holds no
\* asset created by that call.
C5_RejectionLeavesNoAsset ==
  \A r \in Uploads : Rejected(r) => ~Created(r)

\* C6: an upload is answered as a duplicate, or its insert is rejected by the
\* uniqueness constraint, only because of an asset of its own user with the
\* digest of its own file, created by another upload; every id it returns is
\* the id of an asset of its own user, so uploads of different users never
\* return the same asset.
C6_IsolationAcrossOwners ==
  /\ \A r \in Uploads :
       (err[r] = UniqueViolation \/ res[r].status = StatusOk) =>
         \E a \in assets : /\ a.userId = authUser[r]
                           /\ a.checksum = Hash(file[r])
                           /\ a.originalPath # FilePath(r)
                           /\ res[r].status = StatusOk => res[r].id = a.id
  /\ \A r \in Uploads :
       Succeeded(r) => AssetById(res[r].id).userId = authUser[r]
  /\ \A r, s \in Uploads :
       (Succeeded(r) /\ Succeeded(s) /\ authUser[r] # authUser[s])
       => res[r].id # res[s].id

\* Two different users have uploaded the same content and each was answered
\* with a new asset of its own.
C6_Witness ==
  \E r, s \in Uploads :
    /\ authUser[r] # authUser[s] /\ file[r] = file[s]
    /\ Succeeded(r) /\ Succeeded(s)
    /\ res[r].status = StatusCreated /\ res[s].status = StatusCreated
    /\ res[r].id # res[s].id

\* C7: of the uploads of the same owner and content at most one insert
\* creates the asset, and an upload that has answered is answered as new
\* (201) if and only if its own insert created the asset.
C7_ExactlyOneInsertWins ==
  /\ \A r, s \in Uploads :
       (r # s /\ SameOwnerAndContent(r, s)) => ~(Created(r) /\ Created(s))
  /\ \A r \in Uploads :
       Done(r) => (res[r].status = StatusCreated <=> Created(r))

\* The processor kinds the specification names.
ProcessorKinds == {"thumbnail", "metadata", "ml-tag"}

\* C8, as stated: an upload answered as new has submitted one job per
\* processor kind, each keyed by the new asset's id.
C8_OneJobPerProcessorKind ==
  \A r \in Uploads :
    (Done(r) /\ res[r].status = StatusCreated) =>
      \A k \in ProcessorKinds :
        \E i \in JobsOf(savedAsset[r]) :
          jobs[i].name = k /\ jobs[i].jobId = savedAsset[r]

\* C8, amended: an upload answered as new has submitted exactly one job, the
\* asset-uploaded job, with the new asset's id as its jobId; and every job of
\* the queue is the job of an asset that an upload created.
C8_OneAssetUploadedJob ==
  /\ \A r \in Uploads :
       (Done(r) /\ res[r].status = StatusCreated) =>
         /\ Cardinality(JobsOf(savedAsset[r])) = 1
         /\ \A i \in JobsOf(savedAsset[r]) :
              /\ jobs[i].name = assetUploadedProcessorName
              /\ jobs[i].jobId = savedAsset[r]
  /\ \A i \in 1..Len(jobs) :
       \E r \in Uploads : savedAsset[r] = jobs[i].asset /\ Succeeded(r)

\* An upload was answered as new and its job is in the queue.
C8_Witness ==
  \E r \in Uploads :
    /\ Done(r) /\ res[r].status = StatusCreated
    /\ \E i \in 1..Len(jobs) : jobs[i].jobId = savedAsset[r]

\* C9: from the step in which its insert is rejected by the uniqueness
\* constraint, no step of the upload changes the jobs of the queue, and the
\* catch block hands the temporary file to deleteFileOnDisk, once.
C9_DuplicateSubmitsNoJobs ==
  [][\A r \in Uploads :
       /\ ((pc[r] = "create" /\ err'[r] = UniqueViolation)
             \/ (err[r] = UniqueViolation /\ Steps(r)))
           => jobs' = jobs
       /\ (err[r] = UniqueViolation /\ pc[r] = "catch" /\ Steps(r))
           => /\ cleanups[r] = 0 /\ cleanups'[r] = 1
              /\ FilePath(r) \in deleteQueue'
       /\ (err[r] = UniqueViolation /\ pc[r] = "readback" /\ Steps(r))
           => cleanups'[r] = 1]_vars

\* A duplicate upload has been answered while the queue holds the job of the
\* existing asset, and its temporary file was handed to cleanup.
C9_Witness ==
  \E r \in Uploads :
    /\ Done(r) /\ err[r] = UniqueViolation /\ res[r].status = StatusOk
    /\ cleanups[r] = 1
    /\ JobsOf(res[r].id) # {}

----------------------------------------------------------------------------
(* Properties of deleteAsset *)

\* Delete request d has called deleteFileOnDisk(deleteAssetList).
FilesScheduled(d) == dpc[d] = "done"

\* C11: the list deleteAsset passes to deleteFileOnDisk contains an asset
\* only if the status of its id in the result is Success and the caller owns
\* the asset.
C11_OnlyDeletedAssetsLoseFiles ==
  \A d \in Deletes :
    FilesScheduled(d) =>
      \A id \in dList[d] :
        dResult[d] = "Success" /\ AssetById(id).userId = dUser[d]

\* C12: when deleteAssetById runs for an id whose asset is registered for
\* another user, the status of the id is Forbidden and the registry is left
\* as it was; deleteAsset returns that status as it is.
C12_ForeignDeleteIsForbidden ==
  [][\A d \in Deletes :
       /\ (dpc[d] = "delete" /\ dpc'[d] # dpc[d]
            /\ \E a \in LiveAssets : a.id = dId[d] /\ a.userId # dUser[d])
           => (dResult'[d] = "Forbidden" /\ assets' = assets)
       /\ (dpc[d] = "files" /\ dpc'[d] # dpc[d])
           => (dResult'[d] = dResult[d] /\ assets' = assets)]_vars

\* A delete by a user who does not own the asset has returned Forbidden and
\* the asset is still registered for its owner.
C12_Witness ==
  \E d \in Deletes :
    /\ dpc[d] = "done" /\ dResult[d] = "Forbidden"
    /\ \E a \in LiveAssets : a.id = dId[d] /\ a.userId # dUser[d]

\* C13: when calculateChecksum fails, the upload is rejected, its temporary
\* file is handed to cleanup, no asset is created and no job is enqueued.
C13_ChecksumFailureAbortsToCleanup ==
  \A r \in Uploads :
    (Done(r) /\ checksum[r] = NoChecksum) =>
      /\ Rejected(r)
      /\ ~Created(r)
      /\ JobsOf(savedAsset[r]) = {}
      /\ cleanups[r] >= 1
      /\ (FilePath(r) \in deleteQueue \/ FilePath(r) \notin disk)

\* C14: an upload whose insert failed on the uniqueness constraint answers
\* with success and the id of an asset registered for its owner and digest,
\* whatever was deleted between the failed insert and the read-back.
C14_ConflictAlwaysReadsBack ==
  \A r \in Uploads :
    (Done(r) /\ err[r] = UniqueViolation) =>
      /\ res[r].status = StatusOk
      /\ \E a \in assets : /\ a.id = res[r].id
                            /\ a.userId = authUser[r]
                            /\ a.checksum = Hash(file[r])

----------------------------------------------------------------------------
(* Properties of the error paths of uploadFile *)

\* C15: getAssetByChecksum is called by an upload only after its own insert
\* was attempted and failed with the uniqueness violation: the read-back is
\* entered from the catch block with that error, the error is raised by the
\* insert step, and the insert step is taken without any earlier lookup.
C15_InsertBeforeLookup ==
  /\ [](\A r \in Uploads :
          (pc[r] = "readback" \/ (Done(r) /\ res[r].status = StatusOk))
          => (err[r] = UniqueViolation /\ savedAsset[r] = NoAsset))
  /\ [][\A r \in Uploads :
         /\ (Steps(r) /\ pc'[r] = "readback")
             => (pc[r] = "catch" /\ err[r] = UniqueViolation)
         /\ (err'[r] = UniqueViolation /\ err[r] # UniqueViolation)
             => pc[r] = "create"
         /\ (Steps(r) /\ pc[r] = "checksum")
             => pc'[r] \in {"create", "done"}]_vars

\* An upload is about to call getAssetByChecksum after its insert failed.
C15_Witness ==
  \E r \in Uploads :
    /\ pc[r] = "readback" /\ err[r] = UniqueViolation
    /\ GetAssetByChecksum(authUser[r], checksum[r]) # {}

\* C16: an upload whose insert failed with a storage error other than the
\* uniqueness violation goes to the catch block and from there to its
\* response: it never looks up an existing asset, its steps add no job, and
\* it is answered with a rejection after its temporary file was handed to
\* deleteFileOnDisk.
C16_OtherStoreErrorIsFatal ==
  /\ [](\A r \in Uploads :
          err[r] = StoreError =>
            /\ pc[r] \in {"catch", "done"}
            /\ savedAsset[r] = NoAsset
            /\ Done(r) =>
                  /\ Rejected(r) /\ res[r].id = NoAsset
                  /\ cleanups[r] = 1
                  /\ (FilePath(r) \in deleteQueue \/ FilePath(r) \notin disk))
  /\ [][\A r \in Uploads :
         (Steps(r) /\ err'[r] = StoreError) => jobs' = jobs]_vars

\* An upload was rejected after a storage error while another upload of the
\* same owner and content has created the asset.
C16_Witness ==
  \E r, s \in Uploads :
    /\ Done(r) /\ err[r] = StoreError /\ res[r].status = StatusBadRequest
    /\ r # s /\ SameOwnerAndContent(r, s) /\ Created(s)

\* C17: the upload does not wait for processing.  Whatever the states of
\* the jobs in the queue, an upload that has created its asset can enqueue
\* and answer, and an upload at any other step can take that step; the
\* answer to a new asset is given in the step that adds its job, which is
\* then still waiting for a worker.
C17_UploadNeverWaitsForWorker ==
  /\ [](\A r \in Uploads :
          /\ pc[r] = "checksum" => ENABLED CalculateChecksum(r)
          /\ pc[r] = "create" =>
                ENABLED (CreateUserAsset(r)
                           \/ CreateUserAssetThrows(r, UniqueViolation))
          /\ pc[r] = "enqueue" => ENABLED Enqueue(r)
          /\ pc[r] = "catch" => ENABLED Catch(r)
          /\ pc[r] = "readback" => ENABLED ReadBack(r))
  /\ [][\A r \in Uploads :
         (Responds(r) /\ res'[r].status = StatusCreated) =>
           /\ JobsOf(savedAsset[r]) = {}
           /\ \E i \in JobsOf(savedAsset[r])' : jobs'[i].state = "waiting"]_vars

\* An upload has answered for its new asset while the job of that asset is
\* waiting, and another upload is past its insert with that job waiting.
C17_Witness ==
  \E r, s \in Uploads :
    /\ Done(r) /\ res[r].status = StatusCreated
    /\ \E i \in JobsOf(savedAsset[r]) : jobs[i].state = "waiting"
    /\ r # s /\ pc[s] = "enqueue"

----------------------------------------------------------------------------
(* Properties of uploadFile under a crash before the enqueue *)

Crashed(r) == pc[r] = "crashed"

\* C18: when an upload stops after its asset was created and before its job
\* was enqueued, the asset stays registered and has no job, then and ever
\* after: no other upload of that owner and content creates an asset or
\* adds a job; its insert can only be rejected by the uniqueness constraint,
\* and it is then answered as a duplicate carrying the id of that asset.
C18_CrashedAssetIsNeverRepaired ==
  /\ [](\A r \in Uploads :
          Crashed(r) =>
            /\ \E a \in LiveAssets : a.id = savedAsset[r]
            /\ JobsOf(savedAsset[r]) = {}
            /\ res[r].status = Pending
            /\ \A s \in Uploads :
                 (s # r /\ SameOwnerAndContent(r, s)) =>
                   /\ savedAsset[s] = NoAsset
                   /\ pc[s] = "create" =>
                         /\ ~ENABLED CreateUserAsset(s)
                         /\ ENABLED CreateUserAssetThrows(s, UniqueViolation)
                   /\ (Done(s) /\ err[s] = UniqueViolation) => Succeeded(s)
                   /\ Succeeded(s) =>
                         res[s] = [status |-> StatusOk, id |-> savedAsset[r]])
  /\ [][\A r, s \in Uploads :
         (Crashed(r) /\ s # r /\ SameOwnerAndContent(r, s) /\ Steps(s))
         => jobs' = jobs]_vars

\* An upload stopped before its enqueue, and a later upload of the same
\* owner and content was answered as a duplicate of its asset.
C18_Witness ==
  \E r, s \in Uploads :
    /\ Crashed(r) /\ r < s /\ SameOwnerAndContent(r, s)
    /\ Done(s) /\ res[s] = [status |-> StatusOk, id |-> savedAsset[r]]
    /\ JobsOf(savedAsset[r]) = {}

----------------------------------------------------------------------------
(* Implicit properties of uploadFile *)

\* C19: every uploadFile call hands its temporary file to deleteFileOnDisk
\* at most once, whatever path it takes.
C19_CleanupAtMostOnce ==
  \A r \in Uploads : cleanups[r] <= 1

\* C20: the id of every successful response, new or duplicate, is the id of
\* exactly one row of the registry, whose owner is the authenticated user of
\* the request and whose digest is the checksum of the file of the request.
C20_ReturnedIdIsCallersAsset ==
  \A r \in Uploads :
    Succeeded(r) =>
      /\ Cardinality({a \in assets : a.id = res[r].id}) = 1
      /\ \A a \in assets :
           a.id = res[r].id =>
             /\ a.userId = authUser[r]
             /\ a.checksum = checksum[r]
             /\ checksum[r] = Hash(file[r])

\* One upload was answered with a new asset and another with a duplicate.
C20_Witness ==
  \E r, s \in Uploads :
    /\ Done(r) /\ res[r].status = StatusCreated
    /\ Done(s) /\ res[s].status = StatusOk
    /\ res[r].id = res[s].id /\ authUser[r] = authUser[s]

====
